---- MODULE Spec2Model ----
(***************************************************************************)
(* A model of SplitLah (src/SplitLah.py): the Account Store (bcrypt        *)
(* hashing and the users.json record file), the split helpers and the      *)
(* "Split within Budget" page.                                             *)
(*                                                                         *)
(* Strings that the code compares ignoring case are sequences of           *)
(* one-character strings, so that str.lower() is computed, not assumed.    *)
(* Money is counted in cents and percentages in hundredths of a percent    *)
(* (the step of the number inputs), with exact arithmetic.                 *)
(***************************************************************************)
EXTENDS Integers, Sequences, FiniteSets, TLC

VARIABLES
    file,      \* users.json: [exists, users], users the list under "users"
    pc,        \* per session: where its store call stands ("idle": outside any call)
    call,      \* per session: its current call, or when idle its last one (history)
    users,     \* per session: the list the call loaded (its local `users`)
    ret,       \* per session: what its last finished call returned (history)
    ncalls,    \* number of store calls begun so far
    created,   \* history: <<username, plaintext>> of every create that returned True
    total,     \* split helpers: the amount to split
    members,   \* split helpers: the member names, in order
    entries,   \* split helpers: the number typed for each member
    outcome,   \* split helpers: what the helper called last showed and returned
    budget_remaining,  \* st.session_state.budget_remaining (cents)
    budget_set,        \* st.session_state.budget_set (cents)
    loop_active,       \* st.session_state.loop_active
    budget_input,      \* the "Enter your total budget" widget: rendered, its default, its value
    group_option,      \* the "Select group option" radio of select_group
    current_members,   \* st.session_state["current_members"]: what select_group returned
    spend_amount,      \* the "Enter amount to spend now" widget (cents)
    option,            \* the "Choose how to split" radio
    pct_inputs,        \* the budget page's percent widgets, one per member
    amt_inputs,        \* the budget page's contribution widgets, one per member
    last_event,        \* history: what the user did to start the last page run
    crashed,           \* history: the last page run ended in an exception
    split_done,        \* history: the last page run showed a split
    ok_spent,          \* history: sum of the spends split since the budget was declared
    even_shown,        \* the shares lines 578-579 wrote in the last page run
    rates_cache,       \* st.cache_data entry of get_live_rates: valid, value, and the response it came from
    rates,             \* per session: module-level `rates` of its last script run
    all_currencies,    \* per session: `all_currencies` of its last script run (a set of codes)
    script_error,      \* per session: its last script run ended in an exception at line 313
    page,              \* st.session_state.page
    ss_plan_type,      \* st.session_state.plan_type
    ss_plan_duration,  \* st.session_state.plan_duration
    ss_groups,         \* st.session_state.groups
    group_event,       \* history: the user's last action on the plan and group pages (a save with its inputs)
    budget_outcome     \* what the budget page's helper called last showed

storeVars == <<file, pc, call, users, ret, ncalls, created>>

splitVars == <<total, members, entries, outcome>>

budgetVars == <<budget_remaining, budget_set, loop_active, budget_input, current_members,
                spend_amount, option, pct_inputs, amt_inputs, last_event, crashed,
                split_done, ok_spent, group_option, even_shown>>

rateVars == <<rates_cache, rates, all_currencies, script_error>>

groupVars == <<page, ss_plan_type, ss_plan_duration, ss_groups, group_event>>

vars == <<file, pc, call, users, ret, ncalls, created, total, members, entries, outcome,
          budget_remaining, budget_set, loop_active, budget_input, current_members,
          spend_amount, option, pct_inputs, amt_inputs, last_event, crashed,
          split_done, ok_spent, group_option, even_shown,
          rates_cache, rates, all_currencies, script_error,
          page, ss_plan_type, ss_plan_duration, ss_groups, group_event, budget_outcome>>

(***************************************************************************)
(* Bounds and value sets                                                   *)
(***************************************************************************)
NumSessions == 2
MaxUsers == 2
MaxCalls == 4

Sessions == 1..NumSessions

\* "al" and "Al" are equal ignoring case; "bo" is another user.
Names == { <<"a", "l">>, <<"A", "l">>, <<"b", "o">> }
Passwords == {"p", "q"}
Salts == {"s1"}

NoGroups == [g \in {} |-> <<>>]
TripGroup == [g \in {"trip"} |-> <<"Ann", "Bob">>]
GroupVals == {NoGroups, TripGroup}
Plans == { <<"Basic", "Monthly">>, <<"Premium Solo", "Yearly">> }

(***************************************************************************)
(* Hashing (src/SplitLah.py 16-26)                                         *)
(***************************************************************************)
\* A string as the store sees it in a password field: whether it is a str,
\* its first four characters, its length, and, for bcrypt output, the salt
\* and the password the digest was computed from.
PwString(kind, prefix, len, salt, of) ==
    [kind |-> kind, prefix |-> prefix, len |-> len, salt |-> salt, of |-> of]

\* bcrypt.hashpw(pw, salt).decode(): "$2b$12$" + 22 salt + 31 digest characters.
hash_password(password, salt) == PwString("str", "$2b$", 60, salt, password)

\* bcrypt.checkpw: hash the candidate with the stored salt and compare.
verify_password(password, hashed) == hash_password(password, hashed.salt) = hashed

is_bcrypt_hash(s) == s.kind = "str" /\ s.prefix = "$2b$" /\ s.len > 50

\* Password fields that are not bcrypt output: a raw password, a "$2b$"
\* string that is too short, another bcrypt variant, a non-string.
BadPasswords ==
    { PwString("str", "p", 1, "", "p"),
      PwString("str", "$2b$", 50, "s1", "p"),
      PwString("str", "$2a$", 60, "s1", "p"),
      PwString("int", "", 0, "", "") }

(***************************************************************************)
(* str.lower() on the characters the model uses                            *)
(***************************************************************************)
LowerChar(c) ==
    CASE c = "A" -> "a"
      [] c = "B" -> "b"
      [] c = "L" -> "l"
      [] c = "O" -> "o"
      [] OTHER -> c

Lower(s) == [i \in DOMAIN s |-> LowerChar(s[i])]

SameUser(a, b) == Lower(a) = Lower(b)

(***************************************************************************)
(* JSON I/O (src/SplitLah.py 30-45)                                        *)
(***************************************************************************)
NoFile == [exists |-> FALSE, users |-> <<>>]

\* load_users: the list read; a missing file is first created holding [].
load_users(f) == IF f.exists THEN f.users ELSE <<>>

FileAfterLoad(f) == [exists |-> TRUE, users |-> load_users(f)]

\* A slip: the check is left out and every list is written.
save_ok_unchecked(us) == \A i \in DOMAIN us : TRUE

\* The loop of save_users: no record may carry a password that is not a hash.
save_ok(us) == \A i \in DOMAIN us : is_bcrypt_hash(us[i].password)

\* save_users: the file after the call; a ValueError leaves it unopened.
save_users(f, us) == IF save_ok(us) THEN [exists |-> TRUE, users |-> us] ELSE f

(***************************************************************************)
(* Record operations (src/SplitLah.py 48-102)                              *)
(***************************************************************************)
get_user(us, username) ==
    LET S == {i \in DOMAIN us : SameUser(us[i].username, username)}
    IN  IF S = {} THEN <<>> ELSE <<us[CHOOSE i \in S : \A j \in S : i <= j]>>

\* A slip: only the record that was changed is written back.
set_groups_only_match(us, username, groups) ==
    SelectSeq([i \in DOMAIN us |-> [us[i] EXCEPT !.groups = groups]],
              LAMBDA r : SameUser(r.username, username))

set_groups(us, username, groups) ==
    [i \in DOMAIN us |->
        IF SameUser(us[i].username, username)
        THEN [us[i] EXCEPT !.groups = groups]
        ELSE us[i]]

\* A slip: the record is rebuilt without its groups.
set_plan_clears_groups(us, username, plan_type, plan_duration) ==
    [i \in DOMAIN us |->
        IF SameUser(us[i].username, username)
        THEN [us[i] EXCEPT !.plan_type = plan_type, !.plan_duration = plan_duration,
                           !.groups = NoGroups]
        ELSE us[i]]

set_plan(us, username, plan_type, plan_duration) ==
    [i \in DOMAIN us |->
        IF SameUser(us[i].username, username)
        THEN [us[i] EXCEPT !.plan_type = plan_type, !.plan_duration = plan_duration]
        ELSE us[i]]

\* A slip: the comparison without .lower().
user_exists_case_sensitive(us, username) ==
    \E i \in DOMAIN us : us[i].username = username

user_exists(us, username) ==
    \E i \in DOMAIN us : SameUser(us[i].username, username)

new_user(username, hashed_pw, plan_type, plan_duration) ==
    [username |-> username, password |-> hashed_pw, groups |-> NoGroups,
     plan_type |-> plan_type, plan_duration |-> plan_duration]

\* A slip: the name typed at login is returned, not the stored one.
verify_user_typed_name(us, username, password) ==
    IF \E i \in DOMAIN us :
           /\ SameUser(us[i].username, username)
           /\ verify_password(password, us[i].password)
    THEN <<username>>
    ELSE <<>>

\* verify_user: the stored username of the first matching record whose hash
\* verifies; <<>> stands for None.
verify_user(us, username, password) ==
    LET S == {i \in DOMAIN us :
                 /\ SameUser(us[i].username, username)
                 /\ verify_password(password, us[i].password)}
    IN  IF S = {} THEN <<>> ELSE <<us[CHOOSE i \in S : \A j \in S : i <= j].username>>

(***************************************************************************)
(* Store calls, one step per file access                                   *)
(***************************************************************************)
\* n numbers the calls in the order they are begun.
Call(n, op, username, password, salt, groups, plan) ==
    [n |-> n, op |-> op, username |-> username, password |-> password, salt |-> salt,
     groups |-> groups, plan_type |-> plan[1], plan_duration |-> plan[2]]

NoCall == Call(0, "none", <<>>, "", "", NoGroups, <<"", "">>)

Ret(kind, val) == [kind |-> kind, val |-> val]
RetPending == Ret("pending", <<>>)
RetNone == Ret("None", <<>>)
RetTrue == Ret("True", <<>>)
RetFalse == Ret("False", <<>>)
RetValueError == Ret("ValueError", <<>>)
RetStr(v) == Ret("str", v)

NotCalled == [fn |-> "none", kind |-> "none", amounts |-> <<>>, shown |-> <<>>]

StoreInit ==
    /\ file = NoFile
    /\ pc = [s \in Sessions |-> "idle"]
    /\ call = [s \in Sessions |-> NoCall]
    /\ users = [s \in Sessions |-> <<>>]
    /\ ret = [s \in Sessions |-> RetPending]
    /\ ncalls = 0
    /\ created = {}

NoSplitInit ==
    /\ total = 0
    /\ members = <<>>
    /\ entries = <<>>
    /\ outcome = NotCalled

NotRendered == [rendered |-> FALSE, default |-> 0, value |-> 0]

\* Lines 128-133, and the first run of the page: select_group is at
\* "Create new group" with one person, not yet named, so the budget widget
\* is shown, at 0.
BudgetInit ==
    /\ budget_remaining = 0
    /\ budget_set = 0
    /\ loop_active = FALSE
    /\ budget_input = [rendered |-> TRUE, default |-> 0, value |-> 0]
    /\ group_option = "Create new group"
    /\ current_members = <<"">>
    /\ even_shown = <<>>
    /\ spend_amount = 0
    /\ option = "Evenly"
    /\ pct_inputs = <<>>
    /\ amt_inputs = <<>>
    /\ last_event = "none"
    /\ crashed = FALSE
    /\ split_done = FALSE
    /\ ok_spent = 0

\* The result of a call that returns a dict or None.
PyDict(m) == [kind |-> "dict", map |-> m]

PyNone == [kind |-> "None", map |-> [c \in {} |-> 0]]

NoResponse == [kind |-> "none", type |-> "none", has_rates |-> FALSE, rates |-> [c \in {} |-> 0]]

\* Before the first script run: nothing cached, line 312 not reached.
RatesInit ==
    /\ rates_cache = [valid |-> FALSE, value |-> PyNone, response |-> NoResponse]
    /\ rates = [s \in 1..NumSessions |-> PyNone]
    /\ all_currencies = [s \in 1..NumSessions |-> {}]
    /\ script_error = [s \in 1..NumSessions |-> FALSE]

NoEvent == [kind |-> "none", name |-> "", arg |-> <<>>]

\* Lines 122-127: the session defaults.
SessionInit ==
    /\ page = "plan_selection"
    /\ ss_plan_type = "Basic"
    /\ ss_plan_duration = "Monthly"
    /\ ss_groups = NoGroups
    /\ group_event = NoEvent

NotShown == [fn |-> "none", shown |-> FALSE, amounts |-> <<>>]

Init ==
    /\ StoreInit
    /\ NoSplitInit
    /\ BudgetInit
    /\ RatesInit
    /\ SessionInit
    /\ budget_outcome = NotShown

\* A session outside any call makes call c.
Enter(s, c) ==
    /\ pc[s] = "idle"
    /\ ncalls < MaxCalls
    /\ ncalls' = ncalls + 1
    /\ call' = [call EXCEPT ![s] = c]
    /\ UNCHANGED <<splitVars, budgetVars, rateVars, groupVars, budget_outcome>>

\* The first statement of every mutating call: users = load_users().
BeginCall(s, c, next) ==
    /\ Enter(s, c)
    /\ users' = [users EXCEPT ![s] = load_users(file)]
    /\ file' = FileAfterLoad(file)
    /\ pc' = [pc EXCEPT ![s] = next]
    /\ ret' = [ret EXCEPT ![s] = RetPending]
    /\ UNCHANGED created

\* A call returns r (or raises, r a ValueError): its locals are gone.
Return(s, r) ==
    /\ pc' = [pc EXCEPT ![s] = "idle"]
    /\ users' = [users EXCEPT ![s] = <<>>]
    /\ ret' = [ret EXCEPT ![s] = r]
    /\ UNCHANGED <<call, ncalls>>
    /\ UNCHANGED <<splitVars, budgetVars, rateVars, groupVars, budget_outcome>>

\* The last statement of every mutating call: save_users(users).
SaveAndReturn(s, us, okRet) ==
    /\ file' = save_users(file, us)
    /\ Return(s, IF save_ok(us) THEN okRet ELSE RetValueError)

\* create_user, line 79.
CreateLoad(s, u, p, salt) ==
    /\ Len(load_users(file)) < MaxUsers
    /\ BeginCall(s, Call(ncalls + 1, "create", u, p, salt, NoGroups, <<"Basic", "Monthly">>),
                 "create_check")

\* create_user, lines 80-81: user_exists loads the file again.
CreateCheck(s) ==
    /\ pc[s] = "create_check"
    /\ file' = FileAfterLoad(file)
    /\ IF user_exists(load_users(file), call[s].username)
       THEN Return(s, RetFalse)
       ELSE /\ pc' = [pc EXCEPT ![s] = "create_save"]
            /\ UNCHANGED <<call, users, ret, ncalls>>
            /\ UNCHANGED <<splitVars, budgetVars, rateVars, groupVars, budget_outcome>>
    /\ UNCHANGED created

\* create_user, lines 82-93.
CreateSave(s) ==
    /\ pc[s] = "create_save"
    /\ LET c == call[s]
           us == Append(users[s],
                        new_user(c.username, hash_password(c.password, c.salt),
                                 c.plan_type, c.plan_duration))
       IN  /\ SaveAndReturn(s, us, RetTrue)
           /\ created' = IF save_ok(us)
                         THEN created \cup {<<c.username, c.password>>}
                         ELSE created

\* update_user_groups, line 57.
UpdateGroupsLoad(s, u, g) ==
    BeginCall(s, Call(ncalls + 1, "update_groups", u, "", "", g, <<"", "">>), "groups_save")

\* update_user_groups, lines 58-61.
UpdateGroupsSave(s) ==
    /\ pc[s] = "groups_save"
    /\ SaveAndReturn(s, set_groups(users[s], call[s].username, call[s].groups), RetNone)
    /\ UNCHANGED created

\* update_user_plan, line 65.
UpdatePlanLoad(s, u, plan) ==
    BeginCall(s, Call(ncalls + 1, "update_plan", u, "", "", NoGroups, plan), "plan_save")

\* update_user_plan, lines 66-70.
UpdatePlanSave(s) ==
    /\ pc[s] = "plan_save"
    /\ SaveAndReturn(s, set_plan(users[s], call[s].username,
                                 call[s].plan_type, call[s].plan_duration), RetNone)
    /\ UNCHANGED created

\* verify_user: one load, no write.
Verify(s, u, p) ==
    /\ Enter(s, Call(ncalls + 1, "verify", u, p, "", NoGroups, <<"", "">>))
    /\ file' = FileAfterLoad(file)
    /\ LET r == verify_user(load_users(file), u, p)
       IN  ret' = [ret EXCEPT ![s] = IF r = <<>> THEN RetNone ELSE RetStr(r[1])]
    /\ UNCHANGED <<pc, users, created>>

Mutate(s, P, G, PL) ==
    \/ \E u \in Names, p \in P, salt \in Salts : CreateLoad(s, u, p, salt)
    \/ CreateCheck(s)
    \/ CreateSave(s)
    \/ \E u \in Names, g \in G : UpdateGroupsLoad(s, u, g)
    \/ UpdateGroupsSave(s)
    \/ \E u \in Names, plan \in PL : UpdatePlanLoad(s, u, plan)
    \/ UpdatePlanSave(s)

\* Sessions are separate processes on one file: their mutating calls
\* interleave at every file access.  What a call writes into a field does
\* not bear on the interleaving, so each field gets one new value here.
Next == \E s \in Sessions : Mutate(s, {"p"}, {TripGroup}, {<<"Premium Solo", "Yearly">>})

Spec == Init /\ [][Next]_vars

\* Calls that do not overlap: a session acts only while no other is inside a call.
NextSeq ==
    \E s \in Sessions :
        /\ \A t \in Sessions \ {s} : pc[t] = "idle"
        /\ \/ Mutate(s, Passwords, GroupVals, Plans)
           \/ \E u \in Names, p \in Passwords : Verify(s, u, p)

SpecSeq == Init /\ [][NextSeq]_vars

(***************************************************************************)
(* save_users called on its own, with any list of records                  *)
(***************************************************************************)
\* The lists handed to it: up to MaxUsers records, the i-th named by the
\* i-th of these names, each password field a hash or not.
SaveNames == << <<"a", "l">>, <<"b", "o">>, <<"c", "y">>, <<"d", "i">>, <<"e", "d">> >>

SaveInputs ==
    UNION { { [i \in 1..n |-> new_user(SaveNames[i], pws[i], "Basic", "Monthly")] :
                pws \in [1..n -> {hash_password("p", "s1")} \cup BadPasswords] } :
            n \in 0..MaxUsers }

\* save_users(us) is entered: `users` is its parameter.
SaveEnter(s, us) ==
    /\ Enter(s, Call(ncalls + 1, "save_users", <<>>, "", "", NoGroups, <<"", "">>))
    /\ users' = [users EXCEPT ![s] = us]
    /\ pc' = [pc EXCEPT ![s] = "save"]
    /\ ret' = [ret EXCEPT ![s] = RetPending]
    /\ UNCHANGED <<file, created>>

\* save_users, lines 39-45.
SaveBody(s) ==
    /\ pc[s] = "save"
    /\ SaveAndReturn(s, users[s], RetNone)
    /\ UNCHANGED created

NextSave ==
    \E s \in Sessions :
        /\ \A t \in Sessions \ {s} : pc[t] = "idle"
        /\ \/ Mutate(s, {"p"}, {TripGroup}, {<<"Premium Solo", "Yearly">>})
           \/ \E us \in SaveInputs : SaveEnter(s, us)
           \/ SaveBody(s)

SpecSave == Init /\ [][NextSave]_vars

(***************************************************************************)
(* Split helpers (src/SplitLah.py 267-297)                                 *)
(*                                                                         *)
(* Percentages are in hundredths of a percent (100% = 10000), money in     *)
(* cents, and the amounts of a percentage split in cents times hundredths  *)
(* of a percent, that is in millionths of a dollar: every product and sum  *)
(* of the helpers is then an exact integer.  The values typed are chosen   *)
(* so that the code's float comparisons come out as the exact ones do, on  *)
(* the tolerance boundary too (0.02 against 0.01; 49.99 + 50 and           *)
(* 50.01 + 50 against 100).                                                *)
(***************************************************************************)
MaxMembers == 3

FullPercent == 10000       \* 100
PercentTolerance == 1      \* 0.01
MoneyTolerance == 1        \* 0.01

MemberNames == {"Alice", "Bob"}
PercentChoices == {0, 2500, 4999, 5000, 5001, 10000}
AmountChoices == {0, 2, 3000, 5000, 10000}
TotalChoices == {1, 2, 9000, 10000}

Abs(x) == IF x < 0 THEN -x ELSE x

RECURSIVE SumSeq(_)
SumSeq(q) == IF q = <<>> THEN 0 ELSE q[1] + SumSeq(Tail(q))

\* dict(zip(keys, vals)) and {k: v for k, v in zip(keys, vals)}: one entry
\* per distinct key, holding the value paired with its last occurrence.
DictOfZip(keys, vals) ==
    [k \in {keys[i] : i \in DOMAIN keys} |->
        vals[CHOOSE i \in DOMAIN keys :
                 /\ keys[i] = k
                 /\ \A j \in DOMAIN keys : keys[j] = k => j <= i]]

Outcome(fn, kind, amounts, shown) ==
    [fn |-> fn, kind |-> kind, amounts |-> amounts, shown |-> shown]

\* split_by_percentage(total, members) with the percentages typed: None with
\* the warning (kind "Invalid"), or the dict of amounts.
split_by_percentage(t, ms, percentages) ==
    LET total_percent == SumSeq(percentages)
    IN  IF Abs(total_percent - FullPercent) > PercentTolerance
        THEN Outcome("percentage", "Invalid", <<>>, <<total_percent>>)
        ELSE Outcome("percentage", "Success",
                     DictOfZip(ms, [i \in DOMAIN ms |-> percentages[i] * t]), <<>>)

\* split_by_money(total, members) with the amounts typed: the dict of amounts
\* (in cents), or None with the info ("Incomplete"), the error ("Exceeds")
\* or the warning ("Insufficient").
split_by_money(t, ms, amounts) ==
    LET total_entered == SumSeq(amounts)
    IN  IF total_entered = 0
        THEN Outcome("money", "Incomplete", <<>>, <<>>)
        ELSE IF Abs(total_entered - t) < MoneyTolerance
        THEN Outcome("money", "Success", DictOfZip(ms, amounts), <<>>)
        ELSE IF total_entered > t
        THEN Outcome("money", "Exceeds", <<>>, <<total_entered, t>>)
        ELSE Outcome("money", "Insufficient", <<>>, <<total_entered, t>>)

\* A member list with a number typed per member, all in the percent inputs
\* or all in the amount inputs.
SplitInputs ==
    UNION { [1..n -> MemberNames] \X ([1..n -> PercentChoices] \cup [1..n -> AmountChoices]) :
            n \in 1..MaxMembers }

AllIn(q, S) == \A i \in DOMAIN q : q[i] \in S

\* The page has a member list (select_group), a total > 0 and one number
\* typed per member; no helper has run yet.
InitSplit ==
    /\ StoreInit
    /\ BudgetInit
    /\ RatesInit
    /\ SessionInit
    /\ budget_outcome = NotShown
    /\ total \in TotalChoices
    /\ \E in \in SplitInputs : members = in[1] /\ entries = in[2]
    /\ outcome = NotCalled

SplitByPercentage ==
    /\ AllIn(entries, PercentChoices)
    /\ outcome' = split_by_percentage(total, members, entries)
    /\ UNCHANGED <<total, members, entries>>
    /\ UNCHANGED <<storeVars, budgetVars, rateVars, groupVars, budget_outcome>>

SplitByMoney ==
    /\ AllIn(entries, AmountChoices)
    /\ outcome' = split_by_money(total, members, entries)
    /\ UNCHANGED <<total, members, entries>>
    /\ UNCHANGED <<storeVars, budgetVars, rateVars, groupVars, budget_outcome>>

NextSplit == SplitByPercentage \/ SplitByMoney

SpecSplit == InitSplit /\ [][NextSplit]_vars

(***************************************************************************)
(* The "Split within Budget" page (lines 487-620).  Money is in cents and  *)
(* percentages in hundredths of a percent; every value a widget can take   *)
(* here is a whole number of dollars or of percent, for which the page's   *)
(* float arithmetic is exact.  An action is one run of the page script,    *)
(* started by the user changing one widget or pressing one button; a run   *)
(* that ends in st.rerun() includes the run it starts.                     *)
(***************************************************************************)
MaxOverspend == 3000

GroupOptions == {"Create new group", "Use saved group"}

\* The lists of names typed under "Create new group" (one person at least).
TypedMemberLists == {<<"">>, <<"Alice">>, <<"Alice", "Bob">>}

\* select_group (lines 250-263): the members of the saved group chosen, no
\* members when the user has no saved groups, or the names typed.
select_group(use_saved, groups, selected, typed) ==
    IF use_saved = "Use saved group"
    THEN IF groups # NoGroups THEN groups[selected] ELSE <<>>
    ELSE typed

\* What select_group can return under an option, the user's saved groups
\* being those of the user's record (lines 236-245).
MembersUnder(use_saved) ==
    { select_group(use_saved, g, IF g = NoGroups THEN "" ELSE CHOOSE k \in DOMAIN g : TRUE, typed) :
        g \in GroupVals, typed \in TypedMemberLists }

BudgetMemberLists == UNION { MembersUnder(o) : o \in GroupOptions }

BudgetChoices == {0, 4000, 10000}

SpendChoices == {0, 4000, 7000}

PercentInputs == {0, 5000, 10000}

AmountInputs == {0, 4000, 7000}

Options == {"Evenly", "By Percentage", "By Money"}

Max(a, b) == IF a >= b THEN a ELSE b

\* Line 555: the value parameter of the budget widget.
BudgetDefault(remaining) == IF remaining # 0 THEN Max(0, remaining) ELSE 0

\* Lines 549-559.  The budget widget has no key: it keeps what was typed
\* into it only while its value parameter is the one of the run before,
\* and shows that parameter otherwise.
DeclareBudget(mem, typed) ==
    IF mem # <<>> /\ ~loop_active
    THEN LET d == BudgetDefault(budget_remaining)
             budget == IF budget_input.rendered /\ budget_input.default = d
                       THEN typed ELSE d
             assign == budget_remaining = 0 \/ budget_set # budget
         IN  [input     |-> [rendered |-> TRUE, default |-> d, value |-> budget],
              remaining |-> IF assign THEN budget ELSE budget_remaining,
              set       |-> IF assign THEN budget ELSE budget_set,
              declared  |-> assign]
    ELSE [input     |-> NotRendered,
          remaining |-> budget_remaining,
          set       |-> budget_set,
          declared  |-> FALSE]

\* Lines 494-506 and 523-531 (calculate=False): one keyed widget per member,
\* shown only under its option.  The key holds the member's position and
\* name, so a widget keeps its value while both stay the same.
RenderInputs(shown, mem, old_mem, old) ==
    IF shown
    THEN [i \in 1..Len(mem) |->
            IF i <= Len(old) /\ i <= Len(old_mem) /\ old_mem[i] = mem[i]
            THEN old[i] ELSE 0]
    ELSE <<>>

\* Lines 507-519 (calculate=True).
budget_split_by_percentage(t, mem, pcts) ==
    IF Abs(SumSeq(pcts) - FullPercent) > PercentTolerance
    THEN [shown |-> FALSE, amounts |-> <<>>]
    ELSE [shown |-> TRUE, amounts |-> [i \in 1..Len(mem) |-> pcts[i] * t]]

\* Lines 532-545 (calculate=True).
budget_split_by_money(t, mem, amts) ==
    IF Abs(SumSeq(amts) - t) > MoneyTolerance
    THEN [shown |-> FALSE, amounts |-> <<>>]
    ELSE [shown |-> TRUE, amounts |-> amts]

\* Lines 573-585: whether the press showed a split of the spend.
SplitShown(sp, opt, mem, pcts, amts) ==
    /\ sp > 0
    /\ CASE opt = "Evenly"        -> TRUE
         [] opt = "By Percentage" -> budget_split_by_percentage(sp, mem, pcts).shown
         [] opt = "By Money"      -> budget_split_by_money(sp, mem, amts).shown

\* Lines 577-579: the share written for each member.
even_split(t, mem) ==
    [i \in 1..Len(mem) |-> [name |-> mem[i], num |-> t, den |-> Len(mem)]]

\* Line 577 with no members: ZeroDivisionError ends the run.
DividesByZero(sp, opt, mem) == sp > 0 /\ opt = "Evenly" /\ mem = <<>>

\* Lines 589-597.
session_continues_at_zero(remaining) == remaining >= 0

session_continues(remaining) == remaining > 0

\* Lines 548-569 of a run: the widgets as the run leaves them.
Widgets(ev, gopt, mem, sp, opt, pcts, amts, d) ==
    /\ last_event' = ev
    /\ group_option' = gopt
    /\ current_members' = mem
    /\ spend_amount' = sp
    /\ option' = opt
    /\ pct_inputs' = RenderInputs(opt = "By Percentage", mem, current_members, pcts)
    /\ amt_inputs' = RenderInputs(opt = "By Money", mem, current_members, amts)
    /\ budget_input' = d.input

\* A run in which no button's handler acts.
PlainRun(ev, gopt, mem, sp, opt, pcts, amts, typed) ==
    LET d == DeclareBudget(mem, typed)
    IN  /\ Widgets(ev, gopt, mem, sp, opt, pcts, amts, d)
        /\ even_shown' = <<>>
        /\ budget_remaining' = d.remaining
        /\ budget_set' = d.set
        /\ loop_active' = loop_active
        /\ crashed' = FALSE
        /\ split_done' = FALSE
        /\ ok_spent' = IF d.declared THEN 0 ELSE ok_spent
        /\ UNCHANGED <<storeVars, splitVars, rateVars, groupVars, budget_outcome>>

\* Line 548: another group or other names.
ChangeMembers(gopt, mem) ==
    /\ mem \in MembersUnder(gopt)
    /\ gopt # group_option \/ mem # current_members
    /\ PlainRun("widget", gopt, mem, spend_amount, option, pct_inputs, amt_inputs,
                budget_input.value)

\* Lines 551-556: the user types a budget.
ChangeBudget(b) ==
    /\ budget_input.rendered
    /\ b # budget_input.value
    /\ PlainRun("widget", group_option, current_members, spend_amount, option, pct_inputs,
                amt_inputs, b)

\* Line 562.
ChangeSpend(sp) ==
    /\ sp # spend_amount
    /\ PlainRun("widget", group_option, current_members, sp, option, pct_inputs, amt_inputs,
                budget_input.value)

\* Line 563.
ChangeOption(opt) ==
    /\ opt # option
    /\ PlainRun("widget", group_option, current_members, spend_amount, opt, pct_inputs,
                amt_inputs, budget_input.value)

\* Lines 498-504.
ChangePercent(i, v) ==
    /\ i \in DOMAIN pct_inputs
    /\ v # pct_inputs[i]
    /\ PlainRun("widget", group_option, current_members, spend_amount, option,
                [pct_inputs EXCEPT ![i] = v], amt_inputs, budget_input.value)

\* Lines 526-531.
ChangeAmount(i, v) ==
    /\ i \in DOMAIN amt_inputs
    /\ v # amt_inputs[i]
    /\ PlainRun("widget", group_option, current_members, spend_amount, option, pct_inputs,
                [amt_inputs EXCEPT ![i] = v], budget_input.value)

\* Lines 572-597: "Split This Amount".
SplitThisAmount ==
    LET d == DeclareBudget(current_members, budget_input.value)
        left == d.remaining - spend_amount
        done == SplitShown(spend_amount, option, current_members, pct_inputs, amt_inputs)
    IN  /\ left >= 0 - MaxOverspend
        /\ Widgets("split", group_option, current_members, spend_amount, option, pct_inputs,
                   amt_inputs, d)
        /\ budget_set' = d.set
        /\ IF DividesByZero(spend_amount, option, current_members)
           THEN /\ budget_remaining' = d.remaining
                /\ loop_active' = loop_active
                /\ crashed' = TRUE
                /\ split_done' = FALSE
                /\ even_shown' = <<>>
                /\ ok_spent' = IF d.declared THEN 0 ELSE ok_spent
           ELSE /\ budget_remaining' = left
                /\ loop_active' = session_continues(left)
                /\ crashed' = FALSE
                /\ split_done' = done
                /\ even_shown' = IF spend_amount > 0 /\ option = "Evenly"
                                 THEN even_split(spend_amount, current_members)
                                 ELSE <<>>
                /\ ok_spent' = (IF d.declared THEN 0 ELSE ok_spent)
                               + (IF done THEN spend_amount ELSE 0)
        /\ UNCHANGED <<storeVars, splitVars, rateVars, groupVars, budget_outcome>>

\* Lines 604-605: "Continue Spending" only starts the run again.
ContinueSpending ==
    /\ loop_active
    /\ PlainRun("continue", group_option, current_members, spend_amount, option, pct_inputs,
                amt_inputs, budget_input.value)

\* Lines 607-612: "End Session", and the run its st.rerun() starts, which
\* shows the budget widget anew when there are members.
EndSession ==
    /\ loop_active
    /\ Widgets("end", group_option, current_members, spend_amount, option, pct_inputs, amt_inputs,
               [input |-> IF current_members # <<>>
                          THEN [rendered |-> TRUE, default |-> 0, value |-> 0]
                          ELSE NotRendered])
    /\ budget_remaining' = 0
    /\ budget_set' = 0
    /\ loop_active' = FALSE
    /\ crashed' = FALSE
    /\ split_done' = FALSE
    /\ even_shown' = <<>>
    /\ ok_spent' = 0
    /\ UNCHANGED <<storeVars, splitVars, rateVars, groupVars, budget_outcome>>

\* Lines 615-620: "Reset Budget".  The new run_id gives the per-member
\* widgets new keys, so what was typed into them is not read again.
ResetBudget ==
    LET d == DeclareBudget(current_members, budget_input.value)
    IN  /\ Widgets("reset", group_option, current_members, spend_amount, option, <<>>, <<>>, d)
        /\ budget_remaining' = 0
        /\ budget_set' = 0
        /\ loop_active' = FALSE
        /\ crashed' = FALSE
        /\ split_done' = FALSE
        /\ even_shown' = <<>>
        /\ ok_spent' = 0
        /\ UNCHANGED <<storeVars, splitVars, rateVars, groupVars, budget_outcome>>

NextBudget ==
    \/ \E gopt \in GroupOptions, mem \in BudgetMemberLists : ChangeMembers(gopt, mem)
    \/ \E b \in BudgetChoices : ChangeBudget(b)
    \/ \E sp \in SpendChoices : ChangeSpend(sp)
    \/ \E opt \in Options : ChangeOption(opt)
    \/ \E i \in 1..MaxMembers, v \in PercentInputs : ChangePercent(i, v)
    \/ \E i \in 1..MaxMembers, v \in AmountInputs : ChangeAmount(i, v)
    \/ SplitThisAmount
    \/ ContinueSpending
    \/ EndSession
    \/ ResetBudget

SpecBudget == Init /\ [][NextBudget]_vars

(***************************************************************************)
(* The currency adapter (lines 299-313).  Rates are in hundredths.         *)
(***************************************************************************)
Codes == {"USD", "SGD"}

RateChoices == {100, 135}

\* Line 310: the hardcoded mapping.
FallbackRates ==
    [c \in {"USD", "EUR", "JPY", "MYR", "INR", "SGD"} |->
        CASE c = "USD" -> 100
          [] c = "EUR" -> 91
          [] c = "JPY" -> 14850
          [] c = "MYR" -> 460
          [] c = "INR" -> 8350
          [] c = "SGD" -> 135]

\* What requests.get, raise_for_status and response.json can come to: an
\* exception, or a parsed body of some JSON type.  has_rates is the value
\* of `"rates" in data` where that is defined (key of a dict, element of a
\* list, substring of a string), and rates the mapping under that key.
Exceptions == {"ConnectionError", "Timeout", "HTTPError", "JSONDecodeError"}

Mappings == UNION { [S -> RateChoices] : S \in SUBSET Codes }

Response(kind, type, has, m) == [kind |-> kind, type |-> type, has_rates |-> has, rates |-> m]

Responses ==
    { Response(e, "none", FALSE, [c \in {} |-> 0]) : e \in Exceptions }
    \cup { Response("body", "dict", TRUE, m) : m \in Mappings }
    \cup { Response("body", "dict", FALSE, [c \in {} |-> 0]) }
    \cup { Response("body", t, h, [c \in {} |-> 0]) : t \in {"list", "str"}, h \in BOOLEAN }
    \cup { Response("body", t, FALSE, [c \in {} |-> 0]) : t \in {"number", "null"} }

\* Lines 301-310.  An exception anywhere in the try block gives the
\* fallback: from the call, from `in` on a number or null, from indexing a
\* list or a string with "rates".  A body without "rates" leaves the try
\* block without a return, and the function returns None.
get_live_rates(resp) ==
    IF resp.kind \in Exceptions THEN PyDict(FallbackRates)
    ELSE IF resp.type \in {"number", "null"} THEN PyDict(FallbackRates)
    ELSE IF ~resp.has_rates THEN PyNone
    ELSE IF resp.type = "dict" THEN PyDict(resp.rates)
    ELSE PyDict(FallbackRates)

\* Lines 312-313 of a script run of session s, with the value
\* get_live_rates gave: None has no keys().
UseRates(s, value) ==
    /\ rates' = [rates EXCEPT ![s] = value]
    /\ script_error' = [script_error EXCEPT ![s] = (value.kind = "None")]
    /\ all_currencies' = [all_currencies EXCEPT ![s] =
                             IF value.kind = "None" THEN @ ELSE DOMAIN value.map]
    /\ UNCHANGED <<storeVars, splitVars, budgetVars, groupVars, budget_outcome>>

\* A script run that finds nothing cached and makes the HTTP call.
RunFetch(s, resp) ==
    /\ ~rates_cache.valid
    /\ rates_cache' = [valid |-> TRUE, value |-> get_live_rates(resp), response |-> resp]
    /\ UseRates(s, get_live_rates(resp))

\* A script run within the ttl of line 299: the value cached, by a run of
\* any session, is returned.
RunCached(s) ==
    /\ rates_cache.valid
    /\ UNCHANGED rates_cache
    /\ UseRates(s, rates_cache.value)

\* ttl=3600 has passed.
CacheExpires ==
    /\ rates_cache.valid
    /\ rates_cache' = [rates_cache EXCEPT !.valid = FALSE]
    /\ UNCHANGED <<rates, all_currencies, script_error>>
    /\ UNCHANGED <<storeVars, splitVars, budgetVars, groupVars, budget_outcome>>

NextRates ==
    \/ \E s \in Sessions, resp \in Responses : RunFetch(s, resp)
    \/ \E s \in Sessions : RunCached(s)
    \/ CacheExpires

SpecRates == Init /\ [][NextRates]_vars

(***************************************************************************)
(* Plan selection and the "Create Groups" page (lines 236-245, 332-367,    *)
(* 408-461) of one logged-in user.  An action is one press of a button or  *)
(* one choice on the plan page, with the script run it starts; every run   *)
(* begins by loading the user's groups and plan from the record file.      *)
(***************************************************************************)
MaxGroups == 5

UserName == <<"a", "l">>

GroupNames == {"g1", "g2", "g3", "g4", "g5", "g6"}

\* What is typed into the member fields of a new group.
TypedGroupMembers == {<<"">>, <<"Ann">>, <<"", "Bob">>}

\* What is typed into a rename field: a name, or blanks.
TypedNewNames == {"g1", "g6", " "}

PlanTypes == {"Basic", "Premium Solo"}

\* The billing cycle chosen with a Premium tier.
Durations == {"Yearly"}

\* str.strip of a typed name (names are typed without blanks around them).
Strip(name) == IF name = " " THEN "" ELSE name

\* plan_type.startswith("Basic")
IsBasic(pt) == pt = "Basic"

\* valid = [m for m in members if m]
ValidMembers(typed) == SelectSeq(typed, LAMBDA m : m # "")

WithGroup(gs, name, mem) ==
    [k \in DOMAIN gs \cup {name} |-> IF k = name THEN mem ELSE gs[k]]

WithoutGroup(gs, name) == [k \in DOMAIN gs \ {name} |-> gs[k]]

\* Lines 236-245: the record of the logged-in user, as the run loads it.
StoredUser(f) == get_user(load_users(f), UserName)

StoredGroups(f) == IF StoredUser(f) # <<>> THEN StoredUser(f)[1].groups ELSE NoGroups

StoredPlanType(f) ==
    IF StoredUser(f) # <<>> THEN StoredUser(f)[1].plan_type ELSE ss_plan_type

StoredPlanDuration(f) ==
    IF StoredUser(f) # <<>> THEN StoredUser(f)[1].plan_duration ELSE ss_plan_duration

\* update_user_groups and update_user_plan as one session runs them.
update_user_groups(f, username, gs) ==
    save_users(FileAfterLoad(f), set_groups(load_users(f), username, gs))

update_user_plan(f, username, pt, pd) ==
    save_users(FileAfterLoad(f), set_plan(load_users(f), username, pt, pd))

\* The user has signed up and logged in: one record, Basic, no groups; the
\* plan page is shown with its radio at "Basic".
InitGroups ==
    /\ file = [exists |-> TRUE,
               users |-> <<new_user(UserName, hash_password("p", "s1"), "Basic", "Monthly")>>]
    /\ pc = [s \in Sessions |-> "idle"]
    /\ call = [s \in Sessions |-> NoCall]
    /\ users = [s \in Sessions |-> <<>>]
    /\ ret = [s \in Sessions |-> RetPending]
    /\ ncalls = 0
    /\ created = {<<UserName, "p">>}
    /\ NoSplitInit
    /\ BudgetInit
    /\ RatesInit
    /\ SessionInit
    /\ budget_outcome = NotShown

GroupFrame ==
    /\ UNCHANGED <<pc, call, users, ret, ncalls, created>>
    /\ UNCHANGED <<splitVars, budgetVars, rateVars, budget_outcome>>

\* The end of a run on the main page: the session holds what was loaded
\* from the file as the run left it.
MainPageRun(f) ==
    /\ file' = f
    /\ page' = "main"
    /\ ss_groups' = StoredGroups(f)
    /\ ss_plan_type' = StoredPlanType(f)
    /\ ss_plan_duration' = StoredPlanDuration(f)

\* Lines 344-361: a choice on the plan page.  "Basic" sets the plan type
\* only; a Premium tier sets the type and the billing cycle.
ChoosePlan(pt, pd) ==
    /\ page = "plan_selection"
    /\ group_event' = [kind |-> "choose_plan", name |-> pt, arg |-> <<>>]
    /\ file' = FileAfterLoad(file)
    /\ page' = page
    /\ ss_groups' = StoredGroups(file)
    /\ ss_plan_type' = pt
    /\ ss_plan_duration' = IF IsBasic(pt) THEN StoredPlanDuration(file) ELSE pd
    /\ GroupFrame

\* Lines 363-367: "Continue to App" persists the plan chosen.
ContinueToApp ==
    /\ page = "plan_selection"
    /\ group_event' = [kind |-> "continue", name |-> ss_plan_type, arg |-> <<>>]
    /\ MainPageRun(update_user_plan(file, UserName, ss_plan_type, ss_plan_duration))
    /\ GroupFrame

\* Lines 408-410: "Change Plan"; the plan page starts with its radio at
\* "Basic" (line 348).
ChangePlan ==
    /\ page = "main"
    /\ group_event' = [kind |-> "change_plan", name |-> "", arg |-> <<>>]
    /\ file' = FileAfterLoad(file)
    /\ page' = "plan_selection"
    /\ ss_groups' = StoredGroups(file)
    /\ ss_plan_type' = "Basic"
    /\ ss_plan_duration' = StoredPlanDuration(file)
    /\ GroupFrame

\* Lines 423-427: whether "Save Group" saves.
save_accepted(gs, pt, new_group, typed) ==
    /\ ValidMembers(typed) # <<>>
    /\ ~(IsBasic(pt) /\ Cardinality(DOMAIN gs) >= MaxGroups /\ new_group \notin DOMAIN gs)

\* Lines 418-433: "Save Group".
SaveGroup(new_group, typed) ==
    /\ page = "main"
    /\ group_event' = [kind |-> "save", name |-> new_group, arg |-> ValidMembers(typed)]
    /\ LET gs == StoredGroups(file)
       IN  IF save_accepted(gs, StoredPlanType(file), new_group, typed)
           THEN MainPageRun(update_user_groups(file, UserName,
                                               WithGroup(gs, new_group, ValidMembers(typed))))
           ELSE MainPageRun(FileAfterLoad(file))
    /\ GroupFrame

\* Lines 442-454: "Rename".
RenameGroup(g, new_name) ==
    /\ page = "main"
    /\ g \in DOMAIN StoredGroups(file)
    /\ group_event' = [kind |-> "rename", name |-> "", arg |-> <<>>]
    /\ LET gs == StoredGroups(file)
           tgt == Strip(new_name)
       IN  IF tgt = "" \/ (tgt \in DOMAIN gs /\ tgt # g)
           THEN MainPageRun(FileAfterLoad(file))
           ELSE MainPageRun(update_user_groups(file, UserName,
                                               WithGroup(WithoutGroup(gs, g), tgt, gs[g])))
    /\ GroupFrame

\* Lines 456-461: "Delete".
DeleteGroup(g) ==
    /\ page = "main"
    /\ g \in DOMAIN StoredGroups(file)
    /\ group_event' = [kind |-> "delete", name |-> "", arg |-> <<>>]
    /\ MainPageRun(update_user_groups(file, UserName, WithoutGroup(StoredGroups(file), g)))
    /\ GroupFrame

NextGroups ==
    \/ \E pt \in PlanTypes, pd \in Durations : ChoosePlan(pt, pd)
    \/ ContinueToApp
    \/ ChangePlan
    \/ \E g \in GroupNames, typed \in TypedGroupMembers : SaveGroup(g, typed)
    \/ \E g \in GroupNames, n \in TypedNewNames : RenameGroup(g, n)
    \/ \E g \in GroupNames : DeleteGroup(g)

SpecGroups == InitGroups /\ [][NextGroups]_vars

(***************************************************************************)
(* The budget page's helpers (calculate=True) on the inputs of the normal  *)
(* ones: each helper is called with the total, the member list and the     *)
(* numbers typed per member.                                               *)
(***************************************************************************)
BudgetOutcome(fn, r) == [fn |-> fn, shown |-> r.shown, amounts |-> r.amounts]

\* Line 582.
BudgetSplitByPercentage ==
    /\ AllIn(entries, PercentChoices)
    /\ budget_outcome' = BudgetOutcome("percentage",
                                       budget_split_by_percentage(total, members, entries))
    /\ UNCHANGED <<storeVars, splitVars, budgetVars, rateVars, groupVars>>

\* Line 585.
BudgetSplitByMoney ==
    /\ AllIn(entries, AmountChoices)
    /\ budget_outcome' = BudgetOutcome("money", budget_split_by_money(total, members, entries))
    /\ UNCHANGED <<storeVars, splitVars, budgetVars, rateVars, groupVars>>

NextCompare ==
    \/ SplitByPercentage
    \/ SplitByMoney
    \/ BudgetSplitByPercentage
    \/ BudgetSplitByMoney

SpecCompare == InitSplit /\ [][NextCompare]_vars

(***************************************************************************)
(* Properties of the Account Store                                         *)
(***************************************************************************)
MatchCount(us, u) == Cardinality({i \in DOMAIN us : SameUser(us[i].username, u)})

WasCreated(u) == \E cp \in created : SameUser(cp[1], u)

\* C1: once create(u, p) has returned True, a later create(u', p') with u'
\* equal to u ignoring case returns False, no step of that call changes the
\* record file, and the file holds exactly one record matching u.
C1_DuplicateCreateRejected ==
    [][\A s \in Sessions :
          /\ (/\ pc[s] = "idle" /\ pc'[s] = "create_check"
              /\ WasCreated(call'[s].username))
             => file' = file
          /\ (/\ pc[s] = "create_check" /\ pc'[s] # "create_check"
              /\ WasCreated(call[s].username))
             => /\ pc'[s] = "idle"
                /\ ret'[s] = RetFalse
                /\ file' = file
                /\ MatchCount(file'.users, call[s].username) = 1
      ]_vars

\* A create of "Al" (or "al") was turned down because the other spelling is stored.
C1_Witness ==
    \E s \in Sessions :
        /\ pc[s] = "idle" /\ call[s].op = "create" /\ ret[s] = RetFalse
        /\ call[s].n = ncalls
        /\ MatchCount(file.users, call[s].username) = 1
        /\ \E i \in DOMAIN file.users :
              /\ SameUser(file.users[i].username, call[s].username)
              /\ file.users[i].username # call[s].username
              /\ \E p \in Passwords : <<file.users[i].username, p>> \in created

\* What the claim expects of verify(u, q): the username as created when some
\* create(u0, q) with u0 equal to u ignoring case succeeded, None otherwise.
VerifyExpected(u, q) ==
    LET S == {cp \in created : SameUser(cp[1], u) /\ cp[2] = q}
    IN  IF S = {} THEN RetNone ELSE RetStr((CHOOSE cp \in S : TRUE)[1])

\* C2: verify(u', q) returns the username as stored by the create(u, p) that
\* matches u' ignoring case when q = p, returns None when q # p or when no
\* record matches, and leaves the stored records as they were.
C2_VerifyReturnsStoredName ==
    [][\A s \in Sessions :
          (/\ ncalls' = ncalls + 1
           /\ call'[s].n = ncalls'
           /\ call'[s].op = "verify")
          => /\ ret'[s] = VerifyExpected(call'[s].username, call'[s].password)
             /\ load_users(file') = load_users(file)
      ]_vars

\* A login typed in another casing than the stored name got the stored name.
C2_Witness ==
    \E s \in Sessions :
        /\ call[s].op = "verify" /\ call[s].n = ncalls
        /\ ret[s].kind = "str"
        /\ ret[s].val # call[s].username
        /\ <<ret[s].val, call[s].password>> \in created

\* The list a call is about to hand to save_users.
ListToWrite(s) ==
    LET c == call[s]
    IN  CASE pc[s] = "save" -> users[s]
          [] pc[s] = "create_save" ->
                Append(users[s],
                       new_user(c.username, hash_password(c.password, c.salt),
                                c.plan_type, c.plan_duration))
          [] pc[s] = "groups_save" -> set_groups(users[s], c.username, c.groups)
          [] pc[s] = "plan_save" ->
                set_plan(users[s], c.username, c.plan_type, c.plan_duration)
          [] OTHER -> <<>>

WellFormedHash(pw) == pw.kind = "str" /\ pw.prefix = "$2b$" /\ pw.len > 50

AllHashed(us) == \A i \in DOMAIN us : WellFormedHash(us[i].password)

\* C3: every write checks the password field of every record of the list it
\* is about to write: with a record whose password is not a well-formed hash
\* the call raises and the file is what it was, otherwise the list is
\* written; so every record of the file always carries a well-formed hash.
C3_SaveRefusesRawPasswords ==
    [][/\ AllHashed(file'.users)
       /\ \A s \in Sessions :
             (pc[s] \in {"save", "create_save", "groups_save", "plan_save"}
                /\ pc'[s] = "idle")
             => IF AllHashed(ListToWrite(s))
                THEN /\ ret'[s] # RetValueError
                     /\ file' = [exists |-> TRUE, users |-> ListToWrite(s)]
                ELSE /\ ret'[s] = RetValueError
                     /\ file' = file
      ]_vars

\* A save of a list holding a raw password raised over a file that has records.
C3_Witness ==
    \E s \in Sessions :
        /\ pc[s] = "idle" /\ call[s].op = "save_users" /\ call[s].n = ncalls
        /\ ret[s] = RetValueError
        /\ file.users # <<>>

\* C4: no two persisted records have usernames that are equal ignoring case,
\* whatever the interleaving of the sessions' calls.
C4_UniqueUsernames ==
    \A i, j \in DOMAIN file.users :
        i # j => ~SameUser(file.users[i].username, file.users[j].username)

SaveStep(s) ==
    /\ pc[s] \in {"create_save", "groups_save", "plan_save"}
    /\ pc'[s] = "idle"

\* The file after a call's change has been applied to the records `old`.
Applied(c, old, new) ==
    CASE c.op = "create" ->
            /\ Len(new) = Len(old) + 1
            /\ SubSeq(new, 1, Len(old)) = old
            /\ new[Len(new)].username = c.username
      [] c.op = "update_groups" ->
            /\ Len(new) = Len(old)
            /\ \A i \in DOMAIN old :
                  new[i] = IF SameUser(old[i].username, c.username)
                           THEN [old[i] EXCEPT !.groups = c.groups]
                           ELSE old[i]
      [] c.op = "update_plan" ->
            /\ Len(new) = Len(old)
            /\ \A i \in DOMAIN old :
                  new[i] = IF SameUser(old[i].username, c.username)
                           THEN [old[i] EXCEPT !.plan_type = c.plan_type,
                                               !.plan_duration = c.plan_duration]
                           ELSE old[i]
      [] OTHER -> FALSE

\* C5: a mutating call that no other writer overlapped (the file it saves
\* over is the file it loaded) adds its change to everything written before
\* it: both changes are in the file.  Its witness is the other half of the
\* claim: an interleaving after which a created record is gone.
C5_NoOverlapKeepsBoth ==
    [][\A s \in Sessions :
          (SaveStep(s) /\ users[s] = load_users(file))
          => /\ ret'[s] \in {RetTrue, RetNone}
             /\ Applied(call[s], load_users(file), file'.users)
      ]_vars

\* Both calls returned without error, the create of s1 returned True, and the
\* file holds the later writer's groups but no record for s1's username.
C5_Witness ==
    \E s1, s2 \in Sessions :
        /\ s1 # s2 /\ pc[s1] = "idle" /\ pc[s2] = "idle"
        /\ call[s1].op = "create" /\ ret[s1] = RetTrue
        /\ call[s2].op = "update_groups" /\ ret[s2] = RetNone
        /\ ~ \E i \in DOMAIN file.users :
                SameUser(file.users[i].username, call[s1].username)
        /\ \E i \in DOMAIN file.users :
              /\ SameUser(file.users[i].username, call[s2].username)
              /\ file.users[i].groups = call[s2].groups
              /\ call[s2].groups # NoGroups

\* The records `new` are the records `old` but for the fields named in
\* `fields` of the records matching u, which hold the values of c.
FrameOf(c, fields, old, new) ==
    /\ Len(new) = Len(old)
    /\ \A i \in DOMAIN old :
          /\ new[i].username = old[i].username
          /\ new[i].password = old[i].password
          /\ IF SameUser(old[i].username, c.username)
             THEN \A f \in {"groups", "plan_type", "plan_duration"} :
                     new[i][f] = IF f \in fields THEN c[f] ELSE old[i][f]
             ELSE new[i] = old[i]
    /\ (\A i \in DOMAIN old : ~SameUser(old[i].username, c.username)) => new = old

RECURSIVE SumDict(_, _)
SumDict(d, keys) ==
    IF keys = {} THEN 0
    ELSE LET k == CHOOSE x \in keys : TRUE
         IN  d[k] + SumDict(d, keys \ {k})

\* C8: with percentages summing to 100 within 0.01 the percentage split
\* returns total * (percentage / 100) for every member of the list, names
\* repeated or not, and the amounts sum to total within 0.01 * total / 100;
\* otherwise it is invalid and returns no amounts.
C8_PercentageSplit ==
    outcome.fn = "percentage" =>
        IF Abs(SumSeq(entries) - FullPercent) > PercentTolerance
        THEN outcome.kind = "Invalid" /\ outcome.amounts = <<>>
        ELSE /\ outcome.kind = "Success"
             /\ \A i \in DOMAIN members :
                   /\ members[i] \in DOMAIN outcome.amounts
                   /\ outcome.amounts[members[i]] = total * entries[i]
             /\ Abs(SumDict(outcome.amounts, DOMAIN outcome.amounts)
                      - total * FullPercent) <= PercentTolerance * total

\* The outcome the claim gives a fixed-amount split.
MoneyClass(sum, t) ==
    IF sum = 0 THEN "Incomplete"
    ELSE IF Abs(sum - t) <= MoneyTolerance THEN "Success"
    ELSE IF sum > t THEN "Exceeds"
    ELSE "Insufficient"

\* C9: the fixed-amount split gives Incomplete for a sum of 0, success for
\* |sum - total| <= 0.01, Exceeds(sum, total) above and Insufficient(sum,
\* total) below that, and amounts only on success.
C9_MoneyOutcomes ==
    outcome.fn = "money" =>
        LET sum == SumSeq(entries)
        IN  /\ outcome.kind = MoneyClass(sum, total)
            /\ outcome.kind \in {"Exceeds", "Insufficient"}
                  => outcome.shown = <<sum, total>>
            /\ outcome.kind # "Success" => outcome.amounts = <<>>
            /\ (entries = <<3000, 3000, 3000>> /\ total = 10000)
                  => outcome.kind = "Insufficient" /\ outcome.shown = <<9000, 10000>>

\* C10: when the contributions sum to total within 0.01, the fixed-amount
\* split returns them unchanged: one amount per entry of the member list,
\* the i-th being the i-th contribution, names repeated or not.  Stated for
\* the sums the helper takes as equal to total (not 0, and nearer than 0.01),
\* the classification of the others being C9's.
C10_MoneyReturnsContributions ==
    (/\ outcome.fn = "money"
     /\ SumSeq(entries) # 0
     /\ Abs(SumSeq(entries) - total) < MoneyTolerance)
    => /\ outcome.kind = "Success"
       /\ Cardinality(DOMAIN outcome.amounts) = Len(members)
       /\ \A i \in DOMAIN members :
             /\ members[i] \in DOMAIN outcome.amounts
             /\ outcome.amounts[members[i]] = entries[i]
       /\ SumDict(outcome.amounts, DOMAIN outcome.amounts) = SumSeq(entries)

(***************************************************************************)
(* Properties of the budget page                                           *)
(***************************************************************************)
\* C6: the remaining budget goes down by a spend only when the split of that
\* spend was shown: in every reachable state budget_remaining equals
\* budget_set minus the sum of the spends split since the budget was
\* declared.
C6_DecrementOnlyAfterSplit == budget_remaining = budget_set - ok_spent

\* A step of a run started by "Split This Amount" that did not end in an
\* exception.
SpendEvent == last_event' = "split" /\ ~crashed'

\* C7: after each spend event the session is active exactly when the new
\* budget_remaining is greater than 0; from a budget of 100 a spend of 40
\* leaves 60, active, with budget_set still 100, and a spend of 70 after it
\* leaves -10, not active.
C7_ActiveFollowsRemaining ==
    [][SpendEvent =>
          /\ loop_active' = (budget_remaining' > 0)
          /\ (budget_set = 10000 /\ budget_remaining = 10000 /\ spend_amount = 4000)
                => (budget_remaining' = 6000 /\ loop_active' /\ budget_set' = 10000)
          /\ (budget_set = 10000 /\ budget_remaining = 6000 /\ spend_amount = 7000)
                => (budget_remaining' = 0 - 1000 /\ ~loop_active' /\ budget_set' = 10000)
      ]_vars

\* The spends 40 then 70 of a budget of 100 have both been split.
C7_Witness ==
    /\ last_event = "split"
    /\ budget_set = 10000
    /\ ok_spent = 11000
    /\ budget_remaining = 0 - 1000
    /\ ~loop_active

(***************************************************************************)
(* Properties of the currency adapter                                      *)
(***************************************************************************)
\* C11: get_live_rates yields a mapping for every outcome of the HTTP call:
\* the fetched rates for a body that holds a rates mapping, and the
\* six-currency fallback, USD included, for every failure; no script run
\* is left without a mapping.
C11_RatesAlwaysMapping ==
    rates_cache.response # NoResponse =>
        LET resp == rates_cache.response
            well_formed == resp.kind = "body" /\ resp.type = "dict" /\ resp.has_rates
        IN  /\ rates_cache.value.kind = "dict"
            /\ well_formed => rates_cache.value.map = resp.rates
            /\ ~well_formed =>
                  /\ rates_cache.value.map = FallbackRates
                  /\ "USD" \in DOMAIN rates_cache.value.map
                  /\ Cardinality(DOMAIN rates_cache.value.map) = 6
            /\ \A s \in Sessions : ~script_error[s]

\* C13: an even split is computed only with members: no sequence of user
\* actions brings the page to divide by a member count of 0 (no run of the
\* page ends in that exception), and an even split of a spend among n >= 1
\* members shows each of the n members the share spend / n.
C13_EvenSplitHasMembers ==
    /\ ~crashed
    /\ (last_event = "split" /\ option = "Evenly" /\ spend_amount > 0)
          => /\ Len(current_members) >= 1
             /\ Len(even_shown) = Len(current_members)
             /\ \A i \in DOMAIN even_shown :
                   /\ even_shown[i].name = current_members[i]
                   /\ even_shown[i].num = spend_amount
                   /\ even_shown[i].den = Len(current_members)

(***************************************************************************)
(* Properties of the plan and group pages                                  *)
(***************************************************************************)
GroupCount(f) == Cardinality(DOMAIN StoredGroups(f))

\* C14: whenever the user's plan type is Basic the user holds at most 5
\* saved groups, in the record file and in the session; a save under Basic
\* of a sixth distinct name leaves both as they were, and a save under a
\* name already held, at the limit, replaces that group.
C14_BasicGroupLimit ==
    [][/\ IsBasic(StoredPlanType(file')) => GroupCount(file') <= MaxGroups
       /\ (IsBasic(ss_plan_type') /\ page' = "main")
             => Cardinality(DOMAIN ss_groups') <= MaxGroups
       /\ (/\ group_event'.kind = "save" /\ page = "main"
           /\ IsBasic(StoredPlanType(file))
           /\ GroupCount(file) = MaxGroups
           /\ group_event'.arg # <<>>)
          => IF group_event'.name \in DOMAIN StoredGroups(file)
             THEN StoredGroups(file') =
                      [StoredGroups(file) EXCEPT ![group_event'.name] = group_event'.arg]
             ELSE StoredGroups(file') = StoredGroups(file) /\ ss_groups' = ss_groups
      ]_vars

(***************************************************************************)
(* Properties of the budget page's helpers                                 *)
(***************************************************************************)
NoRepeat(ms) == \A i, j \in DOMAIN ms : i # j => ms[i] # ms[j]

\* C15: for the same total, member list and entries the budget page's
\* percentage and fixed-amount helpers show a split exactly when the normal
\* helpers succeed, and then the same amount for every member; this on the
\* tolerance boundary and with all entries 0 as elsewhere.  Stated for
\* member lists without a repeated name, what repeated names do to the
\* normal helpers being C8's and C10's.
C15_BudgetSplitsAsNormal ==
    (NoRepeat(members) /\ outcome.fn # "none" /\ budget_outcome.fn = outcome.fn)
    => /\ budget_outcome.shown <=> outcome.kind = "Success"
       /\ budget_outcome.shown =>
             /\ Len(budget_outcome.amounts) = Cardinality(DOMAIN outcome.amounts)
             /\ \A i \in DOMAIN members :
                   outcome.amounts[members[i]] = budget_outcome.amounts[i]

====
